---- MODULE Spec2Model ----
(***************************************************************************)
(* Frame-stepped simulation loop of src/flappyball.py (class FlappyBall).  *)
(*                                                                         *)
(* One action, Frame, is one iteration of the `while True` loop of         *)
(* FlappyBall.run: read the clock, drain the event queue, run the idle     *)
(* animation or the play simulation.  Rendering reads the state only and   *)
(* is left out.                                                            *)
(*                                                                         *)
(* Numbers.  ball_y and ball_vel are Python floats.  They are modelled in  *)
(* fixed point, Scale units per pixel; gravity (0.75) and the jump impulse *)
(* are exact in that unit, the restitution product v * 0.85 is rounded to  *)
(* the nearest unit (the double rounds it to the nearest double).  Pipe    *)
(* coordinates, the score and the timestamps are Python ints and are       *)
(* modelled as integers.  pygame.Rect truncates float arguments toward     *)
(* zero; Trunc models that.                                                *)
(***************************************************************************)
EXTENDS Integers, Sequences, FiniteSets, TLC

\* ---------------------------------------------------------------- bounds
\* Largest timestamp (ms) a frame may read.
MaxTime == 4700
\* Jump presses (SPACE processed in "play") the player makes in one run.
MaxJumps == 2
\* The player's rhythm: while playing, SPACE comes only on every PressEvery-th
\* frame.
PressEvery == 26
\* Frames the player lets pass in "start"/"game_over" without pressing SPACE.
MaxWaits == 1
\* Events delivered by pygame.event.get() in one frame.
MaxEvents == 2
\* Stalled frames in a run of SpecLag, and where they may fall.
MaxLags == 1
LagEvery == 39
\* The flapping player of SpecFlap: the rhythm, and how long the run is watched.
FlapEvery == 13
MaxFlapTime == 1800

\* ------------------------------------------------------------- constants
\* fixed-point resolution of the float variables (units per pixel)
Scale == 400
Fx(n) == n * Scale

WIDTH == 400
HEIGHT == 600
\* clock.tick(FPS) waits 1000 // FPS ms between frames
FPS == 60
FrameMs == 1000 \div FPS

ball_size == 40
ball_radius == ball_size \div 2
ball_x == WIDTH \div 4
\* 0.75 pixels per frame
gravity == (3 * Scale) \div 4
jump_velocity == Fx(-10)

pipe_width == 80
pipe_speed == 3
pipe_gap == 250
ground_height == 15
\* self.next_pipe_time = current_time + 1500
spawn_interval == 1500
\* randint(50, self.HEIGHT - 250)
min_top_height == 50
\* an upper end that leaves room for the ceiling margin but not for the gap
max_top_height_no_gap == HEIGHT - 50
max_top_height == HEIGHT - 250
\* the gap tops the model draws from randint's range: its two ends
TopChoices == {min_top_height, max_top_height}

Events == {"SPACE", "OTHER", "QUIT"}
EventSeqs == UNION {[1..n -> Events] : n \in 0..MaxEvents}

\* ------------------------------------------------------------- arithmetic
Min(a, b) == IF a < b THEN a ELSE b
Max(a, b) == IF a > b THEN a ELSE b

\* int(float): truncation toward zero of a fixed-point value, in pixels
Trunc(a) == IF a >= 0 THEN a \div Scale ELSE -((-a) \div Scale)

\* a / b rounded to the nearest integer
RoundDiv(a, b) ==
    IF a >= 0 THEN (2 * a + b) \div (2 * b) ELSE -((2 * (-a) + b) \div (2 * b))

\* a bounce that loses no speed
Bounce_elastic(v) == -v
\* -(self.ball_vel * 0.85)
Bounce(v) == -RoundDiv(v * 85, 100)

\* amplitude * math.sin((current_time % period) * 2 * math.pi / period), with
\* amplitude 10.0 and period 800, in fixed point.  The sine is Bhaskara's
\* rational approximation sin(x) ~ 16x(pi-x) / (5pi^2 - 4x(pi-x)).
FloatOffset(t) ==
    LET p == t % 800
        h == IF p < 400 THEN p ELSE p - 400
        q == h * (400 - h)
        a == (Fx(10) * 4 * q) \div (200000 - q)
    IN IF p < 400 THEN a ELSE -a

\* (a % -m) of Python, m > 0: the result is in (-m, 0]
PyModNeg(a, m) == -((-a) % m)

\* --------------------------------------------------------------- rectangles
Rect(x, y, w, h) == [x |-> x, y |-> y, w |-> w, h |-> h]

\* pygame.Rect.colliderect: rectangles of zero width or height never collide
colliderect(A, B) ==
    /\ A.w # 0 /\ A.h # 0 /\ B.w # 0 /\ B.h # 0
    /\ Min(A.x, A.x + A.w) < Max(B.x, B.x + B.w)
    /\ Min(A.y, A.y + A.h) < Max(B.y, B.y + B.h)
    /\ Max(A.x, A.x + A.w) > Min(B.x, B.x + B.w)
    /\ Max(A.y, A.y + A.h) > Min(B.y, B.y + B.h)

BallRect(y) ==
    Rect(ball_x - ball_radius, Trunc(y - Fx(ball_radius)),
         2 * ball_radius, 2 * ball_radius)
TopRect(pipe) == Rect(pipe.x, 0, pipe_width, pipe.top_height)
BottomRect(pipe) ==
    Rect(pipe.x, pipe.bottom_y, pipe_width, HEIGHT - pipe.bottom_y)
\* the collision test forgetting the lower pipe
Collides_top_only(rect, pipe) == colliderect(rect, TopRect(pipe))

Collides(rect, pipe) ==
    colliderect(rect, TopRect(pipe)) \/ colliderect(rect, BottomRect(pipe))

\* ------------------------------------------------------------------- state
VARIABLES
    state,          \* "start" | "play" | "game_over"
    ball_y,         \* fixed point
    ball_vel,       \* fixed point
    score,
    high_score,
    pipes,          \* sequence of pipe records, in spawn order
    next_pipe_time,
    ground_x,
    current_time,   \* timestamp read by the last frame
    running,        \* FALSE once run() has returned on QUIT
    jumps,          \* player: jump presses made so far
    waits,          \* player: frames spent waiting outside "play"
    lags,           \* clock: frames that came late so far
    last            \* what the last frame did (history, read by no action)

vars == <<state, ball_y, ball_vel, score, high_score, pipes, next_pipe_time,
          ground_x, current_time, running, jumps, waits, lags, last>>

\* the fields of the game object, as one record
Game == [state |-> state, ball_y |-> ball_y, ball_vel |-> ball_vel,
         score |-> score, high_score |-> high_score, pipes |-> pipes,
         next_pipe_time |-> next_pipe_time, ground_x |-> ground_x,
         spawned |-> last.spawned, spawn_time |-> last.spawn_time]

\* ------------------------------------------------------------ operations
\* a reset that also forgets the best score
reset_game_clears_high(g) ==
    [g EXCEPT !.ball_y = Fx(HEIGHT \div 2),
              !.ball_vel = 0,
              !.score = 0,
              !.high_score = 0,
              !.pipes = <<>>,
              !.next_pipe_time = -1500,
              !.state = "play",
              !.spawned = 0]

reset_game(g) ==
    [g EXCEPT !.ball_y = Fx(HEIGHT \div 2),
              !.ball_vel = 0,
              !.score = 0,
              !.pipes = <<>>,
              !.next_pipe_time = -1500,
              !.state = "play",
              !.spawned = 0]

\* hit_object leaving the best score alone
hit_object_keeps_high(g) == [g EXCEPT !.state = "game_over"]
\* hit_object flipping the phase on every call
hit_object_toggle(g) ==
    [g EXCEPT !.high_score = IF g.score > g.high_score THEN g.score ELSE @,
              !.state = IF g.state = "play" THEN "game_over" ELSE "play"]
\* hit_object storing the score without comparing it
hit_object_overwrite(g) ==
    [g EXCEPT !.high_score = g.score, !.state = "game_over"]

\* hit_object sending the game back to the title screen
hit_object_to_start(g) ==
    [g EXCEPT !.high_score = IF g.score > g.high_score THEN g.score ELSE @,
              !.state = "start"]

hit_object(g) ==
    [g EXCEPT !.high_score = IF g.score > g.high_score THEN g.score ELSE @,
              !.state = "game_over"]

\* the pipe dictionary appended by spawn_pipes; id is the spawn serial of the
\* session (history: it names the obstacle, the program does not store it,
\* nor the count `spawned` and the timestamp `spawn_time` of the latest spawn)
NewPipe(top_height, id) ==
    [x |-> WIDTH, top_height |-> top_height,
     bottom_y |-> top_height + pipe_gap, scored |-> FALSE, id |-> id]

\* the new pipe put in front of the list
spawn_pipes_in_front(g, top_height) ==
    [g EXCEPT !.pipes = <<NewPipe(top_height, g.spawned + 1)>> \o @,
              !.spawned = @ + 1]
spawn_pipes(g, top_height) ==
    [g EXCEPT !.pipes = Append(@, NewPipe(top_height, g.spawned + 1)),
              !.spawned = @ + 1]

\* a jump that adds the impulse to the velocity
HandleEvent_additive(g, e) ==
    IF e = "SPACE"
    THEN CASE g.state = "start" -> reset_game(g)
           [] g.state = "play" -> [g EXCEPT !.ball_vel = @ + jump_velocity]
           [] g.state = "game_over" -> reset_game(g)
           [] OTHER -> g
    ELSE g

\* the KEYDOWN / QUIT dispatch of one event
HandleEvent(g, e) ==
    IF e = "SPACE"
    THEN CASE g.state = "start" -> reset_game(g)
           [] g.state = "play" -> [g EXCEPT !.ball_vel = jump_velocity]
           [] g.state = "game_over" -> reset_game(g)
           [] OTHER -> g
    ELSE g

\* the events before the first QUIT are the ones the loop processes
RECURSIVE Processed(_)
Processed(evs) ==
    IF evs = <<>> \/ Head(evs) = "QUIT" THEN <<>>
    ELSE <<Head(evs)>> \o Processed(Tail(evs))
HasQuit(evs) == \E i \in 1..Len(evs) : evs[i] = "QUIT"

RECURSIVE HandleEvents(_, _)
HandleEvents(g, evs) ==
    IF evs = <<>> THEN g
    ELSE HandleEvents(HandleEvent(g, Head(evs)), Tail(evs))

\* history: one entry per processed SPACE press, with the state it was
\* processed in and the state and velocity it left
RECURSIVE PressTrail(_, _)
PressTrail(g, evs) ==
    IF evs = <<>> THEN <<>>
    ELSE LET h == HandleEvent(g, Head(evs))
         IN (IF Head(evs) = "SPACE"
             THEN <<[in |-> g.state, out |-> h.state, vel |-> h.ball_vel]>>
             ELSE <<>>) \o PressTrail(h, Tail(evs))
IsJump(press) == press.in = "play"
IsReset(press) == press.in # "play"
JumpsIn(trail) == Cardinality({i \in 1..Len(trail) : IsJump(trail[i])})
ResetsIn(trail) == Cardinality({i \in 1..Len(trail) : IsReset(trail[i])})

\* an idle animation that also brings the ball to rest
Float_at_rest(g, t) ==
    [g EXCEPT !.ball_y = Fx(HEIGHT \div 2) + FloatOffset(t), !.ball_vel = 0]
\* the idle animation of the "start" and "game_over" screens
Float(g, t) == [g EXCEPT !.ball_y = Fx(HEIGHT \div 2) + FloatOffset(t)]

ground_top == HEIGHT - ground_height
\* the clamp putting the ball's centre, not its lowest point, on the ground
landing_y_centre == Fx(ground_top)
\* new_ball_y = ground_top - self.ball_radius
landing_y == Fx(ground_top - ball_radius)

\* the ground ending the game, as it does in the game this one is modelled on
Physics_ground_kills(g) ==
    LET v == g.ball_vel + gravity
        new_ball_y == g.ball_y + v
        hitGround == new_ball_y + Fx(ball_radius) > Fx(ground_top)
        h == IF hitGround THEN hit_object(g) ELSE g
    IN [h EXCEPT !.ball_vel = IF hitGround THEN Bounce(v) ELSE v,
                 !.ball_y = IF hitGround THEN landing_y ELSE new_ball_y,
                 !.ground_x = PyModNeg(@ - pipe_speed, WIDTH)]

\* gravity, candidate position, ground clamp and bounce
Physics(g) ==
    LET v == g.ball_vel + gravity
        new_ball_y == g.ball_y + v
        hitGround == new_ball_y + Fx(ball_radius) > Fx(ground_top)
    IN [g EXCEPT !.ball_vel = IF hitGround THEN Bounce(v) ELSE v,
                 !.ball_y = IF hitGround THEN landing_y ELSE new_ball_y,
                 !.ground_x = PyModNeg(@ - pipe_speed, WIDTH)]

\* the program fields of a pipe dictionary (dict equality compares these)
Fields(p) == <<p.x, p.top_height, p.bottom_y, p.scored>>

\* list.remove(p): drop the first element equal to p
RECURSIVE ListRemove(_, _)
ListRemove(list, p) ==
    IF list = <<>> THEN <<>>
    ELSE IF Fields(Head(list)) = Fields(p) THEN Tail(list)
    ELSE <<Head(list)>> \o ListRemove(Tail(list), p)

RECURSIVE RemoveAll(_, _)
RemoveAll(list, removed) ==
    IF removed = <<>> THEN list
    ELSE RemoveAll(ListRemove(list, Head(removed)), Tail(removed))

\* retiring a pipe when its right edge reaches the screen's left edge
OffScreen_inclusive(pipe) == pipe.x + pipe_width <= 0
\* retiring a pipe as soon as its left edge leaves the screen
OffScreen_left_edge(pipe) == pipe.x < 0
\* is the pipe past the left edge of the screen
OffScreen(pipe) == pipe.x + pipe_width < 0
\* has the ball's left edge passed the pipe's right edge
Passed(rect, pipe) == rect.x > pipe.x + pipe_width
\* scoring that does not look at the flag
Scores_every_frame(rect, pipe) == Passed(rect, pipe)
\* the condition of the score increment
Scores(rect, pipe) == Passed(rect, pipe) /\ ~pipe.scored

\* the body of `for pipe in self.pipes`, for the pipe at index i.
\* a carries the game and what the loop has collected so far.
PipeStep(a, rect, i) ==
    LET moved == [a.g.pipes[i] EXCEPT !.x = @ - pipe_speed]
        hit == Collides(rect, moved)
        g1 == IF hit THEN hit_object(a.g) ELSE a.g
        gain == Scores(rect, moved)
        pipe == IF gain THEN [moved EXCEPT !.scored = TRUE] ELSE moved
        g2 == [g1 EXCEPT !.score = IF gain THEN @ + 1 ELSE @,
                         !.pipes[i] = pipe]
    IN [g |-> g2,
        removed_pipes |-> IF OffScreen(pipe) THEN Append(a.removed_pipes, pipe)
                          ELSE a.removed_pipes,
        hits |-> a.hits \o (IF hit THEN <<[id |-> pipe.id, score |-> a.g.score]>>
                             ELSE <<>>),
        gains |-> a.gains \o (IF gain THEN <<pipe.id>> ELSE <<>>)]

RECURSIVE PipeLoop(_, _, _)
PipeLoop(a, rect, i) ==
    IF i > Len(a.g.pipes) THEN a
    ELSE PipeLoop(PipeStep(a, rect, i), rect, i + 1)

\* pipe management of one play frame: the loop, then the removals
ManagePipes(g) ==
    LET a == PipeLoop([g |-> g, removed_pipes |-> <<>>, hits |-> <<>>,
                       gains |-> <<>>], BallRect(g.ball_y), 1)
    IN [a EXCEPT !.g.pipes = RemoveAll(@, a.removed_pipes)]

\* a spawn already on the deadline
SpawnDue_inclusive(g, t) == t >= g.next_pipe_time
\* `if current_time > self.next_pipe_time`
SpawnDue(g, t) == t > g.next_pipe_time
\* the next spawn scheduled from the old deadline instead of from now
Spawn_from_deadline(g, t, top_height) ==
    IF SpawnDue(g, t)
    THEN [spawn_pipes(g, top_height) EXCEPT !.next_pipe_time = @ + spawn_interval,
                                            !.spawn_time = t]
    ELSE g
Spawn(g, t, top_height) ==
    IF SpawnDue(g, t)
    THEN [spawn_pipes(g, top_height) EXCEPT !.next_pipe_time = t + spawn_interval,
                                            !.spawn_time = t]
    ELSE g

\* a play branch that takes back the frame's score when the frame collides
Simulate_rollback(g, t, top_height) ==
    LET a == ManagePipes(Physics(g))
        g1 == IF a.hits # <<>> THEN [a.g EXCEPT !.score = g.score] ELSE a.g
    IN [a EXCEPT !.g = Spawn(g1, t, top_height)]
\* the play branch of the frame
Simulate(g, t, top_height) ==
    LET a == ManagePipes(Physics(g))
    IN [a EXCEPT !.g = Spawn(@, t, top_height)]

\* ------------------------------------------------------------------ frame
Init ==
    /\ state = "start"
    /\ ball_y = Fx(HEIGHT \div 2)
    /\ ball_vel = 0
    /\ score = 0
    /\ high_score = 0
    /\ pipes = <<>>
    /\ next_pipe_time = 0
    /\ ground_x = 0
    /\ current_time = 0
    /\ running = TRUE
    /\ jumps = 0
    /\ waits = 0
    /\ lags = 0
    /\ last = [kind |-> "init", spawned |-> 0, spawn_time |-> 0]

\* What one iteration of the main loop computes: the clock has advanced by dt,
\* evs is what pygame.event.get() returns, top_height is what randint returns
\* if spawn_pipes is called.
Step(g0, t, evs, top_height) ==
    LET done == Processed(evs)
        quit == HasQuit(evs)
        g1 == HandleEvents(g0, done)
        played == ~quit /\ g1.state = "play"
        sim == Simulate(g1, t, top_height)
    IN [g |-> IF quit THEN g1 ELSE IF played THEN sim.g ELSE Float(g1, t),
        quit |-> quit,
        played |-> played,
        after_events |-> g1,
        presses |-> PressTrail(g0, done),
        hits |-> IF played THEN sim.hits ELSE <<>>,
        gains |-> IF played THEN sim.gains ELSE <<>>,
        removed |-> IF played THEN sim.removed_pipes ELSE <<>>]

\* the frame waits outside "play" without starting a session
Waiting(g0, r) == ~r.quit /\ g0.state # "play" /\ r.presses = <<>>

\* One iteration of the main loop of run().
Frame(dt, evs, top_height) ==
    /\ running
    /\ \E r \in {Step(Game, current_time + dt, evs, top_height)} :
        /\ state' = r.g.state
        /\ ball_y' = r.g.ball_y
        /\ ball_vel' = r.g.ball_vel
        /\ score' = r.g.score
        /\ high_score' = r.g.high_score
        /\ pipes' = r.g.pipes
        /\ next_pipe_time' = r.g.next_pipe_time
        /\ ground_x' = r.g.ground_x
        /\ current_time' = current_time + dt
        /\ running' = ~r.quit
        /\ jumps' = jumps + JumpsIn(r.presses)
        /\ waits' = IF Waiting(Game, r) THEN waits + 1 ELSE waits
        /\ lags' = IF dt > FrameMs THEN lags + 1 ELSE lags
        /\ last' = [kind |-> IF r.quit THEN "quit" ELSE IF r.played THEN "play"
                             ELSE "idle",
                    spawned |-> r.g.spawned,
                    spawn_time |-> r.g.spawn_time,
                    before |-> Game,
                    after_events |-> r.after_events,
                    presses |-> r.presses,
                    hits |-> r.hits,
                    gains |-> r.gains,
                    removed |-> r.removed]

\* The inputs the model explores: frames FrameMs apart up to MaxTime, a player
\* who jumps at most MaxJumps times and only on the PressEvery-th frames, who
\* waits at most MaxWaits frames on the title and game-over screens and closes
\* the window only from those screens.  randint is asked only when a pipe is
\* spawned.
Allowed(dt, evs, top_height) ==
    LET t == current_time + dt
        done == Processed(evs)
        trail == PressTrail(Game, done)
        nj == JumpsIn(trail)
        quit == HasQuit(evs)
        g1 == HandleEvents(Game, done)
    IN /\ t <= MaxTime
       /\ jumps + nj <= MaxJumps
       /\ (state = "play" /\ nj > 0) => (t \div FrameMs) % PressEvery = 0
       /\ (~quit /\ state # "play" /\ trail = <<>>) => waits < MaxWaits
       /\ quit => state # "play"
       /\ ~(~quit /\ g1.state = "play" /\ SpawnDue(g1, t))
             => top_height = min_top_height

Next == \E evs \in EventSeqs, top_height \in TopChoices :
            Allowed(FrameMs, evs, top_height) /\ Frame(FrameMs, evs, top_height)

Spec == Init /\ [][Next]_vars

\* ------------------------------------------------------------ stalled frames
\* clock.tick only bounds the frame rate from above: a frame that is held up
\* (a dragged window, a busy machine) returns late and get_ticks jumps ahead.
\* A stalled frame lasts one whole spawn interval, which puts current_time
\* exactly on the spawn deadline or past it.
LagMs == spawn_interval

\* the number of advances the newest pipe has made
NewestAge == (WIDTH - pipes[Len(pipes)].x) \div pipe_speed

\* The frames SpecLag explores: those of Spec that deliver at most one event
\* and no QUIT, and at most MaxLags stalled frames, each during play when the
\* newest pipe has made a multiple of LagEvery advances.
AllowedLag(dt, evs, top_height) ==
    /\ Len(evs) <= 1 /\ ~HasQuit(evs)
    /\ Allowed(dt, evs, top_height)
    /\ dt = LagMs =>
          /\ lags < MaxLags
          /\ state = "play" /\ pipes # <<>>
          /\ NewestAge % LagEvery = 0

NextLag == \E dt \in {FrameMs, LagMs}, evs \in EventSeqs, top_height \in TopChoices :
               AllowedLag(dt, evs, top_height) /\ Frame(dt, evs, top_height)

SpecLag == Init /\ [][NextLag]_vars

\* ------------------------------------------------------------ steady flapping
\* The frames SpecFlap explores: 16 ms frames up to MaxFlapTime in which the
\* player may press SPACE on every FlapEvery-th frame for as long as the game
\* lasts, never closes the window and waits at most MaxWaits frames outside
\* play.
AllowedFlap(dt, evs, top_height) ==
    LET t == current_time + dt
        done == Processed(evs)
        trail == PressTrail(Game, done)
        g1 == HandleEvents(Game, done)
    IN /\ t <= MaxFlapTime
       /\ ~HasQuit(evs)
       /\ (state = "play" /\ JumpsIn(trail) > 0) => (t \div FrameMs) % FlapEvery = 0
       /\ (state # "play" /\ trail = <<>>) => waits < MaxWaits
       /\ ~(g1.state = "play" /\ SpawnDue(g1, t)) => top_height = min_top_height

NextFlap == \E evs \in EventSeqs, top_height \in TopChoices :
                AllowedFlap(FrameMs, evs, top_height) /\ Frame(FrameMs, evs, top_height)

SpecFlap == Init /\ [][NextFlap]_vars

\* ===================================================================== claims
\* The history variable `last` holds the game before the frame (before), after
\* the event loop (after_events) and what the pipe loop did.

Ticked == last.kind # "init"
\* the last frame ran the play branch
Played == last.kind = "play"
Pre == last.before
Mid == last.after_events
Resets == ResetsIn(last.presses)
Jumps == JumpsIn(last.presses)

\* the pipes the loop of the last frame visited, each moved left by the speed
Visited == {[Mid.pipes[i] EXCEPT !.x = @ - pipe_speed] : i \in 1..Len(Mid.pipes)}

\* the ball's bounding box at the end of the frame, as edges
BoxLeft == ball_x - ball_radius
BoxRight == ball_x + ball_radius
BoxTop == Trunc(ball_y - Fx(ball_radius))
BoxBottom == BoxTop + ball_size
\* the box shares area with the rectangle [x0, x1] x [y0, y1]
BoxMeets(x0, x1, y0, y1) ==
    BoxLeft < x1 /\ x0 < BoxRight /\ BoxTop < y1 /\ y0 < BoxBottom
MeetsAbove(p) == BoxMeets(p.x, p.x + pipe_width, 0, p.top_height)
MeetsBelow(p) == BoxMeets(p.x, p.x + pipe_width, p.bottom_y, HEIGHT)
Meets(p) == MeetsAbove(p) \/ MeetsBelow(p)

\* the candidate position of the last play frame was below the ground line
HitGround ==
    Played /\ Mid.ball_y + Mid.ball_vel + gravity + Fx(ball_radius) > Fx(ground_top)

\* C1: the phase changes only start -> play and game_over -> play, each by a
\* SPACE press processed in that phase, and play -> game_over, by a collision
\* found in the pipe loop; a SPACE press processed in play leaves the phase
\* play, and a game that has left start never shows start again.
C1_PhaseTransitions ==
    Ticked =>
        /\ \A i \in 1..Len(last.presses) :
              LET p == last.presses[i]
              IN /\ p.out = "play"
                 /\ p.in \in {"start", "play", "game_over"}
        /\ Pre.state # Mid.state =>
              Pre.state \in {"start", "game_over"} /\ Mid.state = "play" /\ Resets > 0
        /\ Resets = 0 => Mid.state = Pre.state
        /\ Mid.state # state =>
              Mid.state = "play" /\ state = "game_over" /\ Played /\ last.hits # <<>>
        /\ Pre.state # "start" => Mid.state # "start" /\ state # "start"
        /\ HandleEvent(Game, "OTHER").state = state
        /\ state = "play" => HandleEvent(Game, "SPACE").state = "play"

\* a session restarted from the game-over screen: all three transitions taken
C1_Witness ==
    Ticked /\ Pre.state = "game_over" /\ state = "play" /\ Pre.high_score > 0

\* C2: in a frame that runs the play simulation, if the ball's box (at the new
\* ball position) shares area with the part above or below the gap of a pipe
\* of the collection (at the pipe's new x), the state is game_over when the
\* frame ends.
C2_CollisionEndsGame ==
    Played => ((\E p \in Visited : Meets(p)) => state = "game_over")

\* the ball hit the upper pipe in one frame, the lower pipe in another
C2_Witness ==
    Played /\ state = "game_over" /\ (\E p \in Visited : MeetsAbove(p))
C2_WitnessBelow ==
    Played /\ state = "game_over" /\ (\E p \in Visited : MeetsBelow(p))

\* C3: a frame that takes the game from play to game_over has the ball's box
\* sharing area with a pipe; a frame in which the ball lands on the ground and
\* meets no pipe leaves the state play.
C3_OnlyPipesEndGame ==
    Played =>
        /\ state = "game_over" => \E p \in Visited : Meets(p)
        /\ (HitGround /\ ~\E p \in Visited : Meets(p)) => state = "play"

\* the ball bounced off the ground under a pipe that was over it
C3_Witness ==
    /\ Played /\ HitGround /\ state = "play"
    /\ \E p \in Visited : p.x < BoxRight /\ BoxLeft < p.x + pipe_width

\* C4: high_score never decreases; it changes only in a frame that takes the
\* game from play to game_over, and after such a frame it is the larger of
\* its old value and the score at the collision; a reset leaves it alone.
C4_HighScore ==
    /\ reset_game(Game).high_score = high_score
    /\ Ticked =>
        /\ high_score >= Pre.high_score
        /\ Mid.high_score = Pre.high_score
        /\ high_score # Pre.high_score =>
              Played /\ Mid.state = "play" /\ state = "game_over"
        /\ (Played /\ state = "game_over") =>
              \A i \in 1..Len(last.hits) :
                  high_score = Max(Pre.high_score, last.hits[i].score)

\* a session that ended below the best score of an earlier session
C4_Witness ==
    Played /\ state = "game_over" /\ score < Pre.high_score

\* the frame in which the best score was raised
C4_WitnessRaised ==
    Played /\ state = "game_over" /\ high_score > Pre.high_score

\* C5: a pipe's scored flag is set in the first play frame in which the left
\* edge of the ball's box is right of the pipe's right edge and stays set;
\* the score grows in a frame by the number of pipes whose flag is set in it,
\* so by one for a pipe in that frame and by nothing for it afterwards.
NewlyPast == {i \in 1..Len(Mid.pipes) :
                 /\ ~Mid.pipes[i].scored
                 /\ BoxLeft > Mid.pipes[i].x - pipe_speed + pipe_width}
C5_ScoredOnce ==
    /\ \A i \in 1..Len(pipes) :
          pipes[i].scored <=> BoxLeft > pipes[i].x + pipe_width
    /\ Ticked /\ ~Played => score = Mid.score
    /\ Played =>
        /\ score = Mid.score + Cardinality(NewlyPast)
        /\ \A i \in 1..Len(Mid.pipes), j \in 1..Len(pipes) :
              pipes[j].id = Mid.pipes[i].id =>
                  (pipes[j].scored <=> (Mid.pipes[i].scored \/ i \in NewlyPast))

\* a scored pipe still on the screen ten frames after the ball passed it
C5_Witness ==
    /\ Played /\ score = 1 /\ last.gains = <<>>
    /\ \E i \in 1..Len(pipes) :
          pipes[i].scored /\ pipes[i].x + pipe_width < BoxLeft - 10 * pipe_speed

\* C6: at the end of every frame that ran the play physics the ball's lowest
\* point is not below the top of the ground.
C6_GroundClamp ==
    Played => ball_y + Fx(ball_radius) <= Fx(ground_top)

\* the ball came down on the ground after the player had jumped
C6_Witness ==
    Played /\ HitGround /\ jumps > 0 /\ ball_y = landing_y

\* C7: reset_game in any reachable state gives score 0, no pipes, the ball at
\* the vertical centre with zero velocity and the state play, and keeps
\* high_score; so does every reset the event loop has made.
IsFresh(g, high) ==
    /\ g.score = 0
    /\ g.pipes = <<>>
    /\ g.ball_y = Fx(HEIGHT \div 2)
    /\ g.ball_vel = 0
    /\ g.state = "play"
    /\ g.high_score = high
C7_Reset ==
    /\ IsFresh(reset_game(Game), high_score)
    /\ (Ticked /\ Resets > 0 /\ Jumps = 0) => IsFresh(Mid, Pre.high_score)

\* a reset of an ended session that had a score, a best score and pipes
C7_Witness ==
    /\ Ticked /\ Resets > 0 /\ Jumps = 0
    /\ Pre.state = "game_over" /\ Pre.score > 0 /\ Pre.high_score > 0
    /\ Pre.pipes # <<>> /\ Pre.ball_vel # 0

\* C8: a completed frame in which a SPACE press was processed in start or
\* game_over ends in play with score 0; the spawn test held in that frame,
\* so one unscored pipe stands at x = WIDTH and the next spawn is due 1500 ms
\* after the frame's timestamp.
C8_SessionStart ==
    (Played /\ Resets > 0) =>
        /\ current_time >= 0
        /\ state = "play"
        /\ score = 0
        /\ current_time > Mid.next_pipe_time
        /\ Len(pipes) = 1
        /\ pipes[1].x = WIDTH
        /\ ~pipes[1].scored
        /\ next_pipe_time = current_time + 1500

\* a restart from the game-over screen, which still showed pipes
C8_Witness ==
    Played /\ Resets > 0 /\ Pre.state = "game_over" /\ Pre.pipes # <<>>

\* C9: a SPACE press processed in play sets the velocity to the jump impulse,
\* whatever it was, and the physics of the frame starts from it; a SPACE press
\* processed in start or game_over resets instead and leaves velocity 0.
C9_JumpOnlyInPlay ==
    /\ state = "play" => HandleEvent(Game, "SPACE") = [Game EXCEPT !.ball_vel = -10 * Scale]
    /\ state # "play" => HandleEvent(Game, "SPACE") = reset_game(Game)
    /\ Ticked =>
        /\ \A i \in 1..Len(last.presses) :
              LET p == last.presses[i]
              IN IF p.in = "play" THEN p.vel = -10 * Scale ELSE p.vel = 0
        /\ (Played /\ last.presses # <<>>) =>
              /\ Mid.ball_vel = last.presses[Len(last.presses)].vel
              /\ ball_vel = Mid.ball_vel + gravity
              /\ ball_y = Mid.ball_y + ball_vel

\* a jump made while the ball was falling
C9_Witness ==
    Played /\ Jumps > 0 /\ Pre.state = "play" /\ Pre.ball_vel > gravity

\* C10: after a play frame no pipe of the collection has its right edge left
\* of 0; the pipes taken out in the frame are exactly those whose right edge
\* went left of 0 in it, the others stay, moved by the speed; a pipe that
\* is out never comes back, so no later loop touches it.
Ids(list) == {list[i].id : i \in 1..Len(list)}
GoneLeft == {p \in Visited : p.x + pipe_width < 0}
C10_Retirement ==
    /\ \A i \in 1..Len(pipes) : pipes[i].x + pipe_width >= 0
    /\ \A i \in 1..Len(pipes) : pipes[i].id <= last.spawned
    /\ Played =>
        /\ Ids(last.removed) = {p.id : p \in GoneLeft}
        /\ \A p \in Visited \ GoneLeft : \E i \in 1..Len(pipes) :
              /\ pipes[i].id = p.id /\ pipes[i].x = p.x
              /\ pipes[i].top_height = p.top_height
              /\ pipes[i].bottom_y = p.bottom_y
        /\ Ids(pipes) \subseteq ({p.id : p \in Visited \ GoneLeft} \union {Mid.spawned + 1})
        /\ \A p \in GoneLeft : \A i \in 1..Len(pipes) : p.id < pipes[i].id
        /\ \A p \in GoneLeft : p.x + pipe_speed + pipe_width >= 0
        /\ {last.hits[i].id : i \in 1..Len(last.hits)} \subseteq {p.id : p \in Visited}
        /\ {last.gains[i] : i \in 1..Len(last.gains)} \subseteq {p.id : p \in Visited}

\* the first pipe is taken out while the second is on the screen
C10_Witness ==
    Played /\ last.removed # <<>> /\ pipes # <<>> /\ state = "play"

C13_IdleFrame ==
    /\ (Ticked /\ Pre.state # "play" /\ last.presses = <<>>) =>
          /\ state = Pre.state
          /\ score = Pre.score
          /\ high_score = Pre.high_score
          /\ ball_vel = Pre.ball_vel
          /\ next_pipe_time = Pre.next_pipe_time
          /\ pipes = Pre.pipes
          /\ ground_x = Pre.ground_x
    /\ (Ticked /\ Resets = 0) =>
          /\ score >= Pre.score
          /\ \A i \in 1..Len(Pre.pipes) :
                \/ \E j \in 1..Len(pipes) : pipes[j].id = Pre.pipes[i].id
                \/ \E k \in 1..Len(last.removed) : last.removed[k].id = Pre.pipes[i].id

\* the game-over screen keeps the final score and the pipes while the ball
\* floats
C13_Witness ==
    /\ Ticked /\ last.kind = "idle" /\ Pre.state = "game_over"
    /\ Pre.score > 0 /\ Pre.pipes # <<>> /\ Pre.ball_vel # 0
    /\ ball_y # Pre.ball_y

\* C14: in a play frame gravity is added first; if the candidate position
\* puts the ball's lowest point below the ground, the ball is put on the
\* ground and leaves with 0.85 of the incoming speed, upward (10 gives -8.5);
\* otherwise it takes the candidate position and keeps the velocity.
C14_Bounce ==
    /\ 2 * Bounce(10 * Scale) = -17 * Scale
    /\ Played =>
          LET v == Mid.ball_vel + (3 * Scale) \div 4
              candidate == Mid.ball_y + v
          IN IF candidate + Fx(ball_radius) > Fx(HEIGHT - ground_height)
             THEN /\ ball_y = Fx(HEIGHT - ground_height - ball_radius)
                  /\ 100 * ball_vel + 85 * v \in -50..50
             ELSE /\ ball_y = candidate
                  /\ ball_vel = v

\* a landing faster than 10 pixels per frame
C14_Witness ==
    Played /\ HitGround /\ Mid.ball_vel + gravity > 10 * Scale /\ ball_vel < -8 * Scale

C12_SpawnPolicy ==
    /\ Played =>
          LET due == current_time > Mid.next_pipe_time
              born == last.spawned - Mid.spawned
          IN /\ born = IF due THEN 1 ELSE 0
             /\ Len(pipes) = Len(Mid.pipes) - Len(last.removed) + born
             /\ due => /\ pipes[Len(pipes)].x = WIDTH
                       /\ ~pipes[Len(pipes)].scored
                       /\ pipes[Len(pipes)].id = last.spawned
                       /\ next_pipe_time = current_time + 1500
                       /\ last.spawn_time = current_time
                       /\ Mid.spawned > 0 => current_time - Mid.spawn_time > 1500
             /\ ~due => next_pipe_time = Mid.next_pipe_time
    /\ (Ticked /\ ~Played) =>
          /\ last.spawned = Mid.spawned
          /\ pipes = Mid.pipes
          /\ next_pipe_time = Mid.next_pipe_time

\* the second pipe of a session, spawned one frame after a frame that read
\* the clock exactly on the deadline
C12_Witness ==
    /\ Played /\ Mid.spawned >= 1 /\ last.spawned = Mid.spawned + 1
    /\ current_time - FrameMs = Mid.next_pipe_time

\* C15: a play frame in which a pipe is scored and a collision is found ends
\* in game_over with the frame's increment still in the score.
C15_ScoreKept ==
    (Played /\ last.gains # <<>> /\ last.hits # <<>>) =>
        /\ state = "game_over"
        /\ score = Mid.score + Len(last.gains)
        /\ score > Mid.score

\* the ball passes one pipe and runs into the next in the same frame
C15_Witness ==
    /\ Played /\ Len(last.gains) = 1 /\ Len(last.hits) = 1
    /\ state = "game_over" /\ score = Mid.score + 1
    /\ last.hits[1].id > last.gains[1]

\* the pipe loop that signals the collision at the first colliding pipe and
\* stops there
RECURSIVE StopAtFirstHit(_, _, _)
StopAtFirstHit(g, rect, i) ==
    IF i > Len(g.pipes) THEN g
    ELSE LET moved == [g.pipes[i] EXCEPT !.x = @ - pipe_speed]
         IN IF Collides(rect, moved) THEN hit_object(g)
            ELSE StopAtFirstHit(
                     [g EXCEPT !.score = IF Scores(rect, moved) THEN @ + 1 ELSE @],
                     rect, i + 1)

\* C16: at the end of a play frame state, score and high_score are what the
\* loop that stops at the first colliding pipe would have left, however many
\* pipes of the frame collided.
C16_RedundantHits ==
    Played =>
        LET g == Physics(Mid)
            once == StopAtFirstHit(g, BallRect(g.ball_y), 1)
        IN /\ state = once.state
           /\ score = once.score
           /\ high_score = once.high_score
           /\ last.hits # <<>> => state = "game_over"

\* two pipes collide with the ball in one frame
C16_Witness ==
    /\ Played /\ Len(last.hits) >= 2
    /\ last.hits[1].id # last.hits[2].id

\* C18: whenever the state is game_over, high_score >= score; in particular
\* after the loop of the frame that collided.
C18_HighCoversScore ==
    /\ state = "game_over" => high_score >= score
    /\ (Played /\ last.hits # <<>>) => high_score >= score

\* the game-over screen after a frame that scored before it collided
C18_Witness ==
    /\ Ticked /\ ~Played /\ state = "game_over"
    /\ score >= 1 /\ high_score = score
    /\ \E i \in 1..Len(pipes) :
          /\ pipes[i].scored
          /\ pipes[i].x + pipe_width + pipe_speed >= BoxLeft

\* the pipes of the collection that have not been scored
Unscored == {i \in 1..Len(pipes) : ~pipes[i].scored}

\* C19: the pipes are in spawn order with strictly increasing x, each x is
\* WIDTH minus a multiple of the speed, no pipe is retired unscored, score is
\* the number of pipes spawned in the session minus the unscored pipes still
\* in the collection, and the removal takes out exactly the retired pipes.
C19_OrderAndCount ==
    /\ \A i, j \in 1..Len(pipes) :
          i < j => pipes[i].x < pipes[j].x /\ pipes[i].id < pipes[j].id
    /\ \A i \in 1..Len(pipes) : (WIDTH - pipes[i].x) % pipe_speed = 0
    /\ score = last.spawned - Cardinality(Unscored)
    /\ Played =>
          /\ \A k \in 1..Len(last.removed) : last.removed[k].scored
          /\ Ids(pipes) \cap Ids(last.removed) = {}
          /\ Ids(Mid.pipes) \subseteq Ids(pipes) \union Ids(last.removed)

\* a retirement while two younger pipes are on the screen
C19_Witness ==
    /\ Played /\ last.removed # <<>> /\ Len(pipes) >= 2
    /\ Unscored # {}

\* C20: at the end of every play frame that leaves the state play, the
\* ball's bounding box lies inside the gap of every pipe whose horizontal
\* extent overlaps it: its top is not above top_height and its bottom is not
\* below bottom_y.
C20_OnlyThroughGap ==
    (Played /\ state = "play") =>
        \A i \in 1..Len(pipes) :
            (pipes[i].x <= BoxRight /\ pipes[i].x + pipe_width >= BoxLeft) =>
                /\ BoxTop >= pipes[i].top_height
                /\ BoxBottom <= pipes[i].bottom_y

====
